---- MODULE Spec2Model ----
(***************************************************************************)
(* Model of process_pdfs.py: workers that claim a batch of rows of the     *)
(* documents table (SELECT ... FOR UPDATE SKIP LOCKED), download each PDF, *)
(* extract its text and write a success or failure outcome per row under a *)
(* savepoint, inside one outer transaction per batch.                      *)
(*                                                                         *)
(* Sizes are counted in megabytes; the streaming chunk is scaled with      *)
(* them.  now() is the start time of the transaction; a worker's n-th      *)
(* transaction reads the time n.                                           *)
(***************************************************************************)
EXTENDS Integers, Sequences, FiniteSets, TLC

\* ---------------------------------------------------------------- bounds
NRows == 3
NWorkers == 2

\* ------------------------------------------------------------- settings
BATCH_SIZE == 2
MAX_ATTEMPTS == 2
MAX_PDF_MB == 3
RETRY_TOTAL == 3
chunk_size == 2
ErrLimit == 800

\* lengths of the two kinds of message the handlers build
ShortLen == 40
LongLen == 1200

Workers == 1..NWorkers
\* rows 1..NRows are a live backlog; two more rows are permanently ineligible
NullUrlRow == NRows + 1
ExhaustedRow == NRows + 2
Ids == 1..(NRows + 2)

NULL == "NULL"
NoTime == 0
NoBytes == -1
NoCL == -1
URL == "https://host/docs/doc.pdf"
PDF == "application/pdf"
HTML == "text/html"

Min(a, b) == IF a < b THEN a ELSE b

\* ------------------------------------------------------------- messages
Msg(kind, detail, len) == [kind |-> kind, detail |-> detail, len |-> len]
NoMsg == Msg(NULL, NULL, 0)

\* err_msg[:800]
Truncate(m) == [m EXCEPT !.len = Min(m.len, ErrLimit)]

\* --------------------------------------------------------------- bodies
Bodies == {"A", "B", "big", "huge", "empty", "bad"}

BodyLen(b) ==
    CASE b = "A" -> 2
      [] b = "B" -> MAX_PDF_MB
      [] b = "big" -> MAX_PDF_MB + 1
      [] b = "huge" -> MAX_PDF_MB + 2 * chunk_size + 1
      [] b = "empty" -> 0
      [] OTHER -> 1

sha256_hex(b) ==
    CASE b = "A" -> "e3b0a1"
      [] b = "B" -> "7f83b1"
      [] b = "big" -> "2c26b4"
      [] b = "huge" -> "fcde2b"
      [] b = "empty" -> "e3b0c4"
      [] OTHER -> "ba7816"

\* extract_text: "" for empty bytes, ValueError for an unreadable container
extract_text(b) ==
    CASE b = "empty" -> [ok |-> TRUE, text |-> "", err |-> NoMsg]
      [] b = "bad" -> [ok |-> FALSE, text |-> NULL,
                       err |-> Msg("ValueError", "Failed to read PDF", ShortLen)]
      [] OTHER -> [ok |-> TRUE, text |-> b, err |-> NoMsg]

\* ------------------------------------------------------------- download
\* what the server of a URL does: the HEAD answer ("ok", "error" for a
\* transport error or timeout, "405" for an error status, whose headers
\* sess.head returns like any other), the number of retryable answers it
\* gives to successive GETs before its final one (status 0 is a transport
\* error), the GET headers and the body it serves
Base ==
    [head |-> "ok", headCL |-> NoCL, headMime |-> PDF, headCD |-> NULL,
     n503 |-> 0, final |-> 200, getMime |-> PDF, getCD |-> NULL, body |-> "A"]

Servers ==
    { Base,
      [Base EXCEPT !.body = "B", !.headCL = BodyLen("B")],
      [Base EXCEPT !.head = "error"],
      [Base EXCEPT !.headCL = MAX_PDF_MB + 10],
      [Base EXCEPT !.headCL = MAX_PDF_MB + 10, !.body = "huge"],
      [Base EXCEPT !.n503 = 3],
      [Base EXCEPT !.n503 = RETRY_TOTAL + 1],
      [Base EXCEPT !.final = 404],
      [Base EXCEPT !.head = "error", !.final = 0],
      [Base EXCEPT !.head = "405", !.headMime = HTML],
      [Base EXCEPT !.head = "405", !.headMime = HTML, !.getMime = NULL],
      [Base EXCEPT !.getMime = HTML],
      [Base EXCEPT !.headMime = NULL, !.getMime = NULL, !.getCD = "report.pdf"],
      [Base EXCEPT !.body = "big"],
      [Base EXCEPT !.body = "huge"],
      [Base EXCEPT !.body = "empty"],
      [Base EXCEPT !.body = "bad"] }

UrlBasename(url) == IF url = URL THEN "doc.pdf" ELSE NULL

guess_filename(url, content_disposition) ==
    IF content_disposition # NULL THEN content_disposition ELSE UrlBasename(url)

meta0 == [mime |-> NULL, filename |-> NULL, content_length |-> NoCL]

\* the body of the try block of the HEAD probe: the meta it leaves behind and
\* whether it raised (a transport error, or the ValueError of the size test);
\* the status of the answer is not looked at
HeadProbe(url, srv) ==
    IF srv.head = "error"
    THEN [meta |-> meta0, raised |-> TRUE]
    ELSE LET m1 == [meta0 EXCEPT !.mime = srv.headMime] IN
         IF srv.headCL # NoCL
         THEN LET m2 == [m1 EXCEPT !.content_length = srv.headCL] IN
              IF srv.headCL > MAX_PDF_MB
              THEN [meta |-> m2, raised |-> TRUE]
              ELSE [meta |-> [m2 EXCEPT !.filename = guess_filename(url, srv.headCD)],
                    raised |-> FALSE]
         ELSE [meta |-> [m1 EXCEPT !.filename = guess_filename(url, srv.headCD)],
               raised |-> FALSE]

\* except Exception: pass -- what the probe raised never leaves download_pdf
HeadPropagates(raised) == FALSE

status_forcelist == {429, 500, 502, 503, 504}

\* a Retry that allows one attempt too many
RECURSIVE SendGetOneMore(_, _, _)
SendGetOneMore(srv, k, left) ==
    LET status == IF k <= srv.n503 THEN 503 ELSE srv.final IN
    IF (status \in status_forcelist \/ status = 0) /\ left >= 0
    THEN SendGetOneMore(srv, k + 1, left - 1)
    ELSE [status |-> status, sent |-> k]

\* the adapter's Retry: attempt k with `left` retries remaining
RECURSIVE SendGet(_, _, _)
SendGet(srv, k, left) ==
    LET status == IF k <= srv.n503 THEN 503 ELSE srv.final IN
    IF (status \in status_forcelist \/ status = 0) /\ left > 0
    THEN SendGet(srv, k + 1, left - 1)
    ELSE [status |-> status, sent |-> k]

sess_get(srv) == SendGet(srv, 1, RETRY_TOTAL)

cap == MAX_PDF_MB

\* a read that looks at the cap only once the body has ended
RECURSIVE StreamBodyLate(_, _, _)
StreamBodyLate(remaining, read, chunks) ==
    IF remaining = 0
    THEN [ok |-> read <= cap, read |-> read, chunks |-> chunks]
    ELSE LET c == Min(chunk_size, remaining) IN
         StreamBodyLate(remaining - c, read + c, chunks + 1)

\* for chunk in r.iter_content(...): read += len(chunk); if read > cap: raise
RECURSIVE StreamBody(_, _, _)
StreamBody(remaining, read, chunks) ==
    IF remaining = 0
    THEN [ok |-> TRUE, read |-> read, chunks |-> chunks]
    ELSE LET c == Min(chunk_size, remaining) IN
         IF read + c > cap
         THEN [ok |-> FALSE, read |-> read + c, chunks |-> chunks + 1]
         ELSE StreamBody(remaining - c, read + c, chunks + 1)

DlFail(kind, detail, declared, sent, read, chunks) ==
    [ok |-> FALSE, err |-> Msg(kind, detail, ShortLen), data |-> NULL,
     mime |-> NULL, filename |-> NULL, declared |-> declared,
     getSent |-> sent, read |-> read, chunks |-> chunks]

download_pdf(url, srv) ==
    LET h == HeadProbe(url, srv)
        declared == h.meta.content_length
    IN
    IF HeadPropagates(h.raised)
    THEN DlFail("ValueError", "PDF too large (HEAD)", declared, 0, 0, 0)
    ELSE
    LET r == sess_get(srv)
        filename == IF h.meta.filename = NULL
                    THEN guess_filename(url, srv.getCD) ELSE h.meta.filename
        mime == IF srv.getMime # NULL THEN srv.getMime ELSE h.meta.mime
        s == StreamBody(BodyLen(srv.body), 0, 0)
    IN
    CASE r.status = 0 ->
           DlFail("ConnectionError", "Max retries exceeded", declared, r.sent, 0, 0)
      [] r.status >= 400 ->
           DlFail("HTTPError", IF r.status = 503 THEN "503" ELSE "404",
                  declared, r.sent, 0, 0)
      [] mime # NULL /\ mime # PDF ->
           DlFail("ValueError", "Unexpected content-type", declared, r.sent, 0, 0)
      [] ~s.ok ->
           DlFail("ValueError", "PDF too large (GET)", declared, r.sent, s.read, s.chunks)
      [] OTHER ->
           [ok |-> TRUE, err |-> NoMsg, data |-> srv.body, mime |-> mime,
            filename |-> filename, declared |-> declared,
            getSent |-> r.sent, read |-> s.read, chunks |-> s.chunks]

\* the first try block of the row loop: download, extract, fingerprint
NoOut ==
    [ok |-> FALSE, err |-> NoMsg, data |-> NULL, mime |-> NULL, filename |-> NULL,
     declared |-> NoCL, getSent |-> 0, read |-> 0, chunks |-> 0,
     text_out |-> NULL, sha_digest |-> NULL, srv |-> Base]

ProcessRow(url, srv) ==
    LET d == download_pdf(url, srv) IN
    IF ~d.ok
    THEN [NoOut EXCEPT !.err = d.err, !.declared = d.declared, !.getSent = d.getSent,
                       !.read = d.read, !.chunks = d.chunks, !.srv = srv]
    ELSE LET t == extract_text(d.data) IN
         IF ~t.ok
         THEN [NoOut EXCEPT !.err = t.err, !.declared = d.declared,
                            !.getSent = d.getSent, !.read = d.read,
                            !.chunks = d.chunks, !.srv = srv]
         ELSE [ok |-> TRUE, err |-> NoMsg, data |-> d.data, mime |-> d.mime,
               filename |-> d.filename, declared |-> d.declared,
               getSent |-> d.getSent, read |-> d.read, chunks |-> d.chunks,
               text_out |-> t.text, sha_digest |-> sha256_hex(d.data), srv |-> srv]

\* ---------------------------------------------------------------- state
VARIABLES
    db,             \* the committed table: id -> row
    tx,             \* per worker: the rows it has locked, with its uncommitted writes
    pc,             \* per worker: where main / process_once stands
    rows,           \* per worker: the claimed batch, in id order
    idx,            \* per worker: position of the row loop in rows
    cur,            \* per worker: what the first try block produced for the row
    success,        \* per worker: process_once's success counter
    failures,       \* per worker: process_once's failures counter
    batch_no,       \* per worker: main's batch_no
    totals,         \* per worker: main's total_rows / total_success / total_failures
    applied,        \* history: per worker, outcomes written and kept in the open batch
    lost,           \* history: per worker, the rows of the batch it lost uncommitted
    outcomes        \* history: id -> outcomes applied by committed batches

vars == <<db, tx, pc, rows, idx, cur, success, failures, batch_no, totals,
          applied, lost, outcomes>>

Range(s) == {s[i] : i \in DOMAIN s}

InitRow(r) ==
    [pdf_url |-> IF r = NullUrlRow THEN NULL ELSE URL,
     raw_text |-> NULL,
     processed |-> IF r = ExhaustedRow THEN NULL ELSE "FALSE",
     process_attempts |-> IF r = ExhaustedRow THEN MAX_ATTEMPTS ELSE 0,
     processed_at |-> NoTime,
     last_error |-> IF r = ExhaustedRow
                    THEN Msg("HTTPError", "404", ShortLen) ELSE NoMsg,
     downloaded_at |-> NoTime,
     bytes |-> NoBytes,
     mime |-> NULL,
     filename |-> NULL,
     sha256 |-> NULL]

NoTx == [r \in {} |-> 0]
ZeroTotals == [rows |-> 0, success |-> 0, failures |-> 0]

Init ==
    /\ db = [r \in Ids |-> InitRow(r)]
    /\ tx = [w \in Workers |-> NoTx]
    /\ pc = [w \in Workers |-> "claim"]
    /\ rows = [w \in Workers |-> <<>>]
    /\ idx = [w \in Workers |-> 0]
    /\ cur = [w \in Workers |-> NoOut]
    /\ success = [w \in Workers |-> 0]
    /\ failures = [w \in Workers |-> 0]
    /\ batch_no = [w \in Workers |-> 0]
    /\ totals = [w \in Workers |-> ZeroTotals]
    /\ applied = [w \in Workers |-> NoTx]
    /\ lost = [w \in Workers |-> {}]
    /\ outcomes = [r \in Ids |-> db[r].process_attempts]

\* ---------------------------------------------------------- fetch_batch
\* the WHERE clause without the test of the ceiling
EligibleNoCeiling(row) ==
    /\ row.processed # "TRUE"
    /\ row.pdf_url # NULL

\* a ceiling test that lets a row at the ceiling through
EligibleOffByOne(row) ==
    /\ row.processed # "TRUE"
    /\ row.pdf_url # NULL
    /\ row.process_attempts <= MAX_ATTEMPTS

\* the WHERE clause without the test of processed
EligibleNoProcessed(row) ==
    /\ row.pdf_url # NULL
    /\ row.process_attempts < MAX_ATTEMPTS

\* WHERE processed IS DISTINCT FROM TRUE AND pdf_url IS NOT NULL
\*   AND process_attempts < :max_attempts
Eligible(row) ==
    /\ row.processed # "TRUE"
    /\ row.pdf_url # NULL
    /\ row.process_attempts < MAX_ATTEMPTS

\* a plain SELECT: no row lock is taken, none is seen
LockedNever(r) == FALSE

\* FOR UPDATE SKIP LOCKED: a row another transaction holds is passed over
Locked(r) == \E v \in Workers : r \in DOMAIN tx[v]

\* ORDER BY id DESC
RECURSIVE SortedDesc(_)
SortedDesc(S) ==
    IF S = {} THEN <<>>
    ELSE LET m == CHOOSE x \in S : \A y \in S : x >= y
         IN <<m>> \o SortedDesc(S \ {m})

\* ORDER BY id
RECURSIVE SortedSeq(_)
SortedSeq(S) ==
    IF S = {} THEN <<>>
    ELSE LET m == CHOOSE x \in S : \A y \in S : x <= y
         IN <<m>> \o SortedSeq(S \ {m})

\* ORDER BY id ... LIMIT :batch
fetch_batch ==
    LET cand == SortedSeq({r \in Ids : Eligible(db[r]) /\ ~Locked(r)})
    IN SubSeq(cand, 1, Min(Len(cand), BATCH_SIZE))

\* -------------------------------------------------------- outcome writes
mark_success(row, out, now) ==
    [row EXCEPT !.raw_text = out.text_out,
                !.processed = "TRUE",
                !.processed_at = now,
                !.process_attempts = @ + 1,
                !.last_error = NoMsg,
                !.downloaded_at = IF @ = NoTime THEN now ELSE @,
                !.bytes = BodyLen(out.data),
                !.mime = out.mime,
                !.filename = IF @ = NULL THEN out.filename ELSE @,
                !.sha256 = out.sha_digest]

\* a failure write that leaves the counter alone
mark_failure_no_count(row, err_msg) ==
    [row EXCEPT !.last_error = Truncate(err_msg),
                !.processed = "FALSE"]

\* a failure write that also clears the time of the last success
mark_failure_resets(row, err_msg) ==
    [row EXCEPT !.process_attempts = @ + 1,
                !.last_error = Truncate(err_msg),
                !.processed = "FALSE",
                !.processed_at = NoTime]

mark_failure(row, err_msg) ==
    [row EXCEPT !.process_attempts = @ + 1,
                !.last_error = Truncate(err_msg),
                !.processed = "FALSE"]

\* no savepoint: what the block wrote before it raised stays
begin_nested_no_rollback(before, after, raised) == after

\* with conn.begin_nested(): the savepoint is released when the block ends
\* normally and rolled back to when the block raises
begin_nested(before, after, raised) == IF raised THEN before ELSE after

\* the unique index on sha256, as transaction w sees it when writing row r:
\* an entry another open transaction has written makes the writer wait for
\* that transaction to end; a committed entry, or one of w's own, of another
\* row is a unique violation
ShaWaits(w, r, digest) ==
    \E v \in Workers \ {w} : \E r2 \in DOMAIN tx[v] : tx[v][r2].sha256 = digest

\* a table without the unique index
ShaConflictNoIndex(w, r, digest) == FALSE

ShaConflict(w, r, digest) ==
    \E r2 \in Ids \ {r} :
        (IF r2 \in DOMAIN tx[w] THEN tx[w][r2] ELSE db[r2]).sha256 = digest

\* -------------------------------------------------------------- actions
\* now(): the start time of w's open transaction
now(w) == batch_no[w]

Row(w) == rows[w][idx[w]]

\* a row loop that ends at the first row
NextRowBreak(w) ==
    /\ cur' = [cur EXCEPT ![w] = NoOut]
    /\ idx' = idx
    /\ pc' = [pc EXCEPT ![w] = "commit"]

\* the end of one turn of the row loop: the next row, or the end of the loop
NextRow(w) ==
    /\ cur' = [cur EXCEPT ![w] = NoOut]
    /\ IF idx[w] < Len(rows[w])
       THEN /\ idx' = [idx EXCEPT ![w] = @ + 1]
            /\ pc' = [pc EXCEPT ![w] = "fetch"]
       ELSE /\ idx' = idx
            /\ pc' = [pc EXCEPT ![w] = "commit"]

\* process_once is left: its locals are gone
Return(w) ==
    /\ rows' = [rows EXCEPT ![w] = <<>>]
    /\ idx' = [idx EXCEPT ![w] = 0]
    /\ cur' = [cur EXCEPT ![w] = NoOut]
    /\ success' = [success EXCEPT ![w] = 0]
    /\ failures' = [failures EXCEPT ![w] = 0]

\* autocommit: the end of the transaction keeps the writes made so far
RollbackKeepsWrites(w) ==
    /\ tx' = [tx EXCEPT ![w] = NoTx]
    /\ applied' = [applied EXCEPT ![w] = NoTx]
    /\ lost' = [lost EXCEPT ![w] = DOMAIN tx[w]]
    /\ db' = [r \in Ids |-> IF r \in DOMAIN tx[w] THEN tx[w][r] ELSE db[r]]
    /\ outcomes' = outcomes

\* rollback of the outer transaction: its writes are dropped, its locks freed
Rollback(w) ==
    /\ tx' = [tx EXCEPT ![w] = NoTx]
    /\ applied' = [applied EXCEPT ![w] = NoTx]
    /\ lost' = [lost EXCEPT ![w] = DOMAIN tx[w]]
    /\ db' = db
    /\ outcomes' = outcomes

\* a loop that also ends after a full batch
AfterBatchOffByOne(processed) ==
    IF processed = 0 \/ processed <= BATCH_SIZE THEN "done" ELSE "claim"

\* main, after process_once returned: break when it processed nothing or
\* fewer rows than a full batch, otherwise go round the loop
AfterBatch(processed) ==
    IF processed = 0 \/ processed < BATCH_SIZE THEN "done" ELSE "claim"

\* main: batch_no += 1; process_once: engine.begin(), fetch_batch.  An empty
\* claim returns (0, 0, 0), commits nothing and ends the run.
Claim(w) ==
    /\ pc[w] = "claim"
    /\ batch_no' = [batch_no EXCEPT ![w] = @ + 1]
    /\ LET got == fetch_batch IN
       IF got = <<>>
       THEN /\ pc' = [pc EXCEPT ![w] = AfterBatch(0)]
            /\ UNCHANGED <<tx, rows, idx, applied, success, failures>>
       ELSE /\ pc' = [pc EXCEPT ![w] = "fetch"]
            /\ rows' = [rows EXCEPT ![w] = got]
            /\ idx' = [idx EXCEPT ![w] = 1]
            /\ tx' = [tx EXCEPT ![w] = [r \in Range(got) |-> db[r]]]
            /\ applied' = [applied EXCEPT ![w] = [r \in Range(got) |-> 0]]
            /\ success' = [success EXCEPT ![w] = 0]
            /\ failures' = [failures EXCEPT ![w] = 0]
    /\ UNCHANGED <<db, cur, totals, lost, outcomes>>

\* fetch_batch raises (the connection is lost): the exception leaves
\* process_once and main
ClaimError(w) ==
    /\ pc[w] = "claim"
    /\ batch_no' = [batch_no EXCEPT ![w] = @ + 1]
    /\ pc' = [pc EXCEPT ![w] = "aborted"]
    /\ UNCHANGED <<db, tx, rows, idx, cur, success, failures, totals,
                   applied, lost, outcomes>>

\* download_pdf, extract_text, sha256_hex under one try
TryDownload(w, S) ==
    /\ pc[w] = "fetch"
    /\ \E srv \in S :
         LET out == ProcessRow(tx[w][Row(w)].pdf_url, srv) IN
         /\ cur' = [cur EXCEPT ![w] = out]
         /\ pc' = [pc EXCEPT ![w] = IF out.ok THEN "success" ELSE "failure"]
    /\ UNCHANGED <<db, tx, rows, idx, success, failures, batch_no, totals,
                   applied, lost, outcomes>>

\* the success write under its savepoint; IntegrityError is caught
TrySuccess(w) ==
    /\ pc[w] = "success"
    /\ ~ShaWaits(w, Row(w), cur[w].sha_digest)
    /\ LET r == Row(w)
           raised == ShaConflict(w, r, cur[w].sha_digest)
           after == mark_success(tx[w][r], cur[w], now(w))
       IN
       /\ tx' = [tx EXCEPT ![w][r] = begin_nested(tx[w][r], after, raised)]
       /\ IF raised
          THEN /\ cur' = [cur EXCEPT ![w].err =
                            Msg("IntegrityError", cur[w].sha_digest, ShortLen)]
               /\ pc' = [pc EXCEPT ![w] = "failure"]
               /\ UNCHANGED <<idx, success, applied>>
          ELSE /\ success' = [success EXCEPT ![w] = @ + 1]
               /\ applied' = [applied EXCEPT ![w][r] = @ + 1]
               /\ NextRow(w)
    /\ UNCHANGED <<db, rows, failures, batch_no, totals, lost, outcomes>>

\* the success write fails with another SQLAlchemyError (a deadlock on the
\* unique index, a lost connection, a timeout); it is caught as well
SuccessDbError(w) ==
    /\ pc[w] = "success"
    /\ LET r == Row(w)
           after == mark_success(tx[w][r], cur[w], now(w))
       IN tx' = [tx EXCEPT ![w][r] = begin_nested(tx[w][r], after, TRUE)]
    /\ cur' = [cur EXCEPT ![w].err = Msg("SQLAlchemyError", "db", LongLen)]
    /\ pc' = [pc EXCEPT ![w] = "failure"]
    /\ UNCHANGED <<db, rows, idx, success, failures, batch_no, totals,
                   applied, lost, outcomes>>

\* handlers that leave out failures += 1
FailNoCount(w) ==
    /\ pc[w] = "failure"
    /\ LET r == Row(w)
           after == mark_failure(tx[w][r], cur[w].err)
       IN tx' = [tx EXCEPT ![w][r] = begin_nested(tx[w][r], after, FALSE)]
    /\ applied' = [applied EXCEPT ![w][Row(w)] = @ + 1]
    /\ failures' = failures
    /\ NextRow(w)
    /\ UNCHANGED <<db, rows, success, batch_no, totals, lost, outcomes>>

\* the failure write under its savepoint, from any of the three handlers
Fail(w) ==
    /\ pc[w] = "failure"
    /\ LET r == Row(w)
           after == mark_failure(tx[w][r], cur[w].err)
       IN tx' = [tx EXCEPT ![w][r] = begin_nested(tx[w][r], after, FALSE)]
    /\ applied' = [applied EXCEPT ![w][Row(w)] = @ + 1]
    /\ failures' = [failures EXCEPT ![w] = @ + 1]
    /\ NextRow(w)
    /\ UNCHANGED <<db, rows, success, batch_no, totals, lost, outcomes>>

\* the failure write itself raises: no handler is around it, the exception
\* leaves the with engine.begin() block (rollback), process_once and main
FailDbError(w) ==
    /\ pc[w] = "failure"
    /\ pc' = [pc EXCEPT ![w] = "aborted"]
    /\ Rollback(w)
    /\ Return(w)
    /\ UNCHANGED <<batch_no, totals>>

\* the with engine.begin() block ends: COMMIT; process_once returns its
\* counts and main adds them up and decides whether to go on
Commit(w) ==
    /\ pc[w] = "commit"
    /\ db' = [r \in Ids |-> IF r \in DOMAIN tx[w] THEN tx[w][r] ELSE db[r]]
    /\ outcomes' = [r \in Ids |-> IF r \in DOMAIN tx[w]
                                  THEN outcomes[r] + applied[w][r] ELSE outcomes[r]]
    /\ tx' = [tx EXCEPT ![w] = NoTx]
    /\ applied' = [applied EXCEPT ![w] = NoTx]
    /\ totals' = [totals EXCEPT ![w] =
                    [rows |-> @.rows + Len(rows[w]),
                     success |-> @.success + success[w],
                     failures |-> @.failures + failures[w]]]
    /\ pc' = [pc EXCEPT ![w] = AfterBatch(Len(rows[w]))]
    /\ Return(w)
    /\ UNCHANGED <<batch_no, lost>>

\* the worker process dies inside its batch transaction: the server rolls
\* the transaction back
Crash(w) ==
    /\ pc[w] \in {"fetch", "success", "failure", "commit"}
    /\ pc' = [pc EXCEPT ![w] = "crashed"]
    /\ Rollback(w)
    /\ Return(w)
    /\ UNCHANGED <<batch_no, totals>>

\* the servers of the concurrent runs: two bodies and an unavailable host
CoreServers ==
    { Base,
      [Base EXCEPT !.body = "B", !.headCL = BodyLen("B")],
      [Base EXCEPT !.n503 = RETRY_TOTAL + 1] }

Next ==
    \E w \in Workers :
        \/ Claim(w)
        \/ ClaimError(w)
        \/ TryDownload(w, CoreServers)
        \/ TrySuccess(w)
        \/ SuccessDbError(w)
        \/ Fail(w)
        \/ FailDbError(w)
        \/ Commit(w)
        \/ Crash(w)

Spec == Init /\ [][Next]_vars

\* one worker alone, against every kind of server
NextSolo ==
    \/ Claim(1)
    \/ ClaimError(1)
    \/ TryDownload(1, Servers)
    \/ TrySuccess(1)
    \/ SuccessDbError(1)
    \/ Fail(1)
    \/ FailDbError(1)
    \/ Commit(1)
    \/ Crash(1)

SpecSolo == Init /\ [][NextSolo]_vars

\* ------------------------------------------------ a table with a history
\* now() of an earlier run
Earlier == -1

\* the digests earlier runs stored, one per row (the index keeps them apart)
OldSha == <<"0a1b", "1b2c", "2c3d", "3d4e", "4e5f", "5f60", "6071", "7182">>

\* a row as mark_success left it in an earlier run; with done = FALSE the
\* row was queued again afterwards (processed set back, the rest kept)
PastRow(r, done) ==
    [pdf_url |-> URL,
     raw_text |-> "old text",
     processed |-> IF done THEN "TRUE" ELSE "FALSE",
     process_attempts |-> 1,
     processed_at |-> Earlier,
     last_error |-> NoMsg,
     downloaded_at |-> Earlier,
     bytes |-> 1,
     mime |-> PDF,
     filename |-> "old.pdf",
     sha256 |-> OldSha[r]]

\* main starts against a table earlier runs have worked on: the first k
\* rows are processed (all of them when k is the size of the table), and
\* the first of them may have been queued again
InitRerun ==
    /\ \E k \in 0..(NRows + 2) : \E requeued \in BOOLEAN :
         /\ requeued => k >= 1
         /\ db = [r \in Ids |-> IF r > k THEN InitRow(r)
                                 ELSE PastRow(r, ~(requeued /\ r = 1))]
    /\ tx = [w \in Workers |-> NoTx]
    /\ pc = [w \in Workers |-> "claim"]
    /\ rows = [w \in Workers |-> <<>>]
    /\ idx = [w \in Workers |-> 0]
    /\ cur = [w \in Workers |-> NoOut]
    /\ success = [w \in Workers |-> 0]
    /\ failures = [w \in Workers |-> 0]
    /\ batch_no = [w \in Workers |-> 0]
    /\ totals = [w \in Workers |-> ZeroTotals]
    /\ applied = [w \in Workers |-> NoTx]
    /\ lost = [w \in Workers |-> {}]
    /\ outcomes = [r \in Ids |-> db[r].process_attempts]

SpecRerun == InitRerun /\ [][Next]_vars

\* ------------------------------------------------- runs whose calls return
\* the batches one run can need: every batch but the last is full and each
\* of its rows uses up one attempt
MaxBatches == ((NRows * MAX_ATTEMPTS) \div BATCH_SIZE) + 1

\* a step of worker w in a run where the process is not killed and the
\* claim and the failure write return; the scheduler lets every process run
Run(w) ==
    \/ batch_no[w] < MaxBatches /\ Claim(w)
    \/ TryDownload(w, CoreServers)
    \/ TrySuccess(w)
    \/ SuccessDbError(w)
    \/ Fail(w)
    \/ Commit(w)

NextLive == \E w \in Workers : Run(w)

SpecLive ==
    /\ InitRerun
    /\ [][NextLive]_vars
    /\ \A w \in Workers : WF_vars(Run(w))

\* =============================================================== claims
InTx(w) == pc[w] \in {"fetch", "success", "failure", "commit"}
Live == 1..NRows

\* C1: the batches of two workers whose transactions are open at the same
\* time share no row: a row is held by at most one worker at any instant.
C1_DisjointClaims ==
    \A w \in Workers : \A v \in Workers \ {w} :
        /\ InTx(w) /\ InTx(v) => Range(rows[w]) \cap Range(rows[v]) = {}
        /\ DOMAIN tx[w] \cap DOMAIN tx[v] = {}

C1_Witness ==
    \E w \in Workers : \E v \in Workers \ {w} :
        /\ InTx(w) /\ InTx(v)
        /\ Len(rows[w]) = BATCH_SIZE
        /\ rows[v] # <<>>

\* C2: every row a claim returns is, in the committed table the claim reads,
\* not processed, with a URL, and below the attempt ceiling.
C2_ClaimedAreEligible ==
    [][\A w \in Workers :
          pc[w] = "claim" /\ pc'[w] = "fetch" =>
              \A r \in Range(rows'[w]) :
                  /\ db[r].processed # "TRUE"
                  /\ db[r].pdf_url # NULL
                  /\ db[r].process_attempts < MAX_ATTEMPTS]_vars

\* a worker running alone has claimed past a processed row and past a row
\* that reached the ceiling
C2_Witness ==
    \E w \in Workers :
        /\ InTx(w)
        /\ \A v \in Workers \ {w} : batch_no[v] = 0
        /\ \E r1 \in Live : \E r2 \in Live :
             /\ r1 < rows[w][1] /\ r2 < rows[w][1]
             /\ db[r1].processed = "TRUE"
             /\ db[r2].processed = "FALSE"
             /\ db[r2].process_attempts >= MAX_ATTEMPTS

\* C3: in the committed table process_attempts counts the outcomes that
\* committed batches applied to the row; no step lowers it and the commit of
\* a batch raises it by exactly one for each row of the batch.
C3_CountsOutcomes == \A r \in Ids : db[r].process_attempts = outcomes[r]

C3_CommitAddsOne ==
    \A r \in Ids :
        /\ db'[r].process_attempts >= db[r].process_attempts
        /\ \A w \in Workers :
             r \in DOMAIN tx[w] /\ pc[w] = "commit" /\ pc'[w] \in {"claim", "done"}
                 => db'[r].process_attempts = db[r].process_attempts + 1

\* C3: the count holds in every state and the step rule in every step.
C3_AttemptsCount == []C3_CountsOutcomes /\ [][C3_CommitAddsOne]_vars

\* a committed row whose success write was rolled back to its savepoint
C3_Witness ==
    \E r \in Live :
        /\ db[r].last_error.kind = "IntegrityError"
        /\ db[r].process_attempts = 1

\* C4: a committed processed row has a text and a fingerprint, and no two
\* committed rows carry the same fingerprint.
C4_ProcessedRows ==
    /\ \A r \in Ids :
         db[r].processed = "TRUE" => db[r].raw_text # NULL /\ db[r].sha256 # NULL
    /\ \A r1 \in Ids : \A r2 \in Ids \ {r1} :
         db[r1].sha256 # NULL => db[r1].sha256 # db[r2].sha256

\* two processed rows, and a third that was refused a fingerprint in use
C4_Witness ==
    \E r1 \in Live : \E r2 \in Live \ {r1} : \E r3 \in Live \ {r1, r2} :
        /\ db[r1].processed = "TRUE"
        /\ db[r2].processed = "TRUE"
        /\ db[r3].last_error.kind = "IntegrityError"

\* C5: when a worker's batch transaction ends without a commit, the
\* committed table is what it was, and the rows of the batch are unlocked
\* and eligible again.
C5_CrashRollsBack ==
    [][\A w \in Workers :
          InTx(w) /\ pc'[w] \in {"crashed", "aborted"} =>
              /\ db' = db
              /\ \A r \in Range(rows[w]) :
                   /\ \A v \in Workers : r \notin DOMAIN tx'[v]
                   /\ db'[r].processed # "TRUE"
                   /\ db'[r].pdf_url # NULL
                   /\ db'[r].process_attempts < MAX_ATTEMPTS]_vars

\* a worker crashed and another worker holds a row of the lost batch
C5_Witness ==
    \E w \in Workers : \E v \in Workers \ {w} :
        /\ pc[w] = "crashed"
        /\ InTx(v)
        /\ Range(rows[v]) \cap lost[w] # {}

\* C6: a failed download or extraction, or a refused success write, sends
\* the worker to the failure write with the batch's pending writes as they
\* were; the failure write changes that row only and the loop goes on to
\* the next row; the commit makes every row's one outcome durable.
C6_Step(w) ==
    /\ pc[w] \in {"fetch", "success"} /\ pc'[w] = "failure" => tx' = tx
    /\ pc[w] = "success" /\ pc'[w] # "success"
       /\ ShaConflict(w, Row(w), cur[w].sha_digest)
           => pc'[w] \in {"failure", "crashed"}
    /\ pc[w] = "failure" /\ pc'[w] \notin {"failure", "crashed", "aborted"} =>
           /\ \A r \in DOMAIN tx[w] \ {Row(w)} : tx'[w][r] = tx[w][r]
           /\ IF idx[w] < Len(rows[w])
              THEN pc'[w] = "fetch" /\ idx'[w] = idx[w] + 1
              ELSE pc'[w] = "commit"
    /\ pc[w] = "commit" /\ pc'[w] \in {"claim", "done"} =>
           \A r \in Range(rows[w]) : db'[r] = tx[w][r] /\ applied[w][r] = 1

\* C6: every step of every worker keeps a row's failure to that row.
C6_RowFailureIsolated == [][\A w \in Workers : C6_Step(w)]_vars

\* a batch about to commit a success followed by a refused duplicate
C6_Witness ==
    \E w \in Workers :
        /\ pc[w] = "commit"
        /\ Len(rows[w]) = 2
        /\ tx[w][rows[w][1]].processed = "TRUE"
        /\ tx[w][rows[w][2]].last_error.kind = "IntegrityError"
        /\ applied[w][rows[w][2]] = 1

\* C7: nothing but an error of the claim ends a run by an exception: an
\* error of the success write or of the failure write does not leave
\* process_once.
C7_OnlyClaimAborts ==
    [][\A w \in Workers :
          pc'[w] = "aborted" /\ pc[w] # "aborted" => pc[w] = "claim"]_vars

\* C8: a row whose committed outcome is the refusal of a duplicate
\* fingerprint differs from what it was before the batch in exactly
\* process_attempts (+1), last_error and processed (false), and another
\* committed, processed row holds that fingerprint.
C8_Step(r) ==
    db'[r] # db[r] /\ db'[r].last_error.kind = "IntegrityError" =>
        /\ db'[r] = [db[r] EXCEPT !.process_attempts = @ + 1,
                                  !.last_error = db'[r].last_error,
                                  !.processed = "FALSE"]
        /\ \E r2 \in Ids \ {r} :
             /\ db'[r2].sha256 = db'[r].last_error.detail
             /\ db'[r2].processed = "TRUE"

\* C8: every step that commits the refusal of a duplicate changes the row so.
C8_DuplicateIsRowFailure == [][\A r \in Ids : C8_Step(r)]_vars

\* the refusal was committed by a worker that has no success, the
\* fingerprint by another worker
C8_Witness ==
    \E w \in Workers : \E v \in Workers \ {w} : \E r \in Live :
        /\ db[r].last_error.kind = "IntegrityError"
        /\ totals[w].failures >= 1 /\ totals[w].success = 0
        /\ totals[v].success >= 1 /\ totals[v].failures = 0

\* C9: a HEAD answer declaring more than the cap fails the download before
\* any GET is sent and before any byte of the body is read.
C9_HeadCapFailsFast ==
    \A w \in Workers :
        pc[w] \in {"success", "failure"}
        /\ cur[w].srv.head = "ok" /\ cur[w].srv.headCL > MAX_PDF_MB
            => ~cur[w].ok /\ cur[w].getSent = 0 /\ cur[w].read = 0

\* C10: a GET is sent at most RETRY_TOTAL + 1 times; three 503s and then a
\* 200 give a successful download when RETRY_TOTAL >= 3; 503 on every
\* attempt gives an HTTPError after RETRY_TOTAL + 1 GETs, and the row's
\* failure adds exactly one to process_attempts.
C10_RetryBound ==
    \A w \in Workers :
        /\ pc[w] \in {"success", "failure"} =>
             /\ cur[w].getSent <= RETRY_TOTAL + 1
             /\ cur[w].srv = [Base EXCEPT !.n503 = 3] /\ RETRY_TOTAL >= 3
                    => cur[w].ok /\ cur[w].getSent = 4
             /\ cur[w].srv.n503 > RETRY_TOTAL =>
                    /\ ~cur[w].ok
                    /\ cur[w].err = Msg("HTTPError", "503", ShortLen)
                    /\ cur[w].getSent = RETRY_TOTAL + 1
        /\ \A r \in DOMAIN tx[w] :
             applied[w][r] = 1 /\ tx[w][r].processed = "FALSE"
             /\ tx[w][r].last_error = Msg("HTTPError", "503", ShortLen)
                 => tx[w][r].process_attempts = db[r].process_attempts + 1

\* a batch about to commit the failure of a row whose server kept
\* answering 503
C10_Witness ==
    \E w \in Workers : \E r \in DOMAIN tx[w] :
        /\ pc[w] = "commit"
        /\ applied[w][r] = 1
        /\ tx[w][r].last_error = Msg("HTTPError", "503", ShortLen)
        /\ tx[w][r].process_attempts = db[r].process_attempts + 1

\* C11: against a table in which every row is processed, a run claims no
\* row and writes no row: the table stays as it was, no transaction holds a
\* row, the counts stay as they were (zero for a run that starts there), and
\* the run ends with the claim it makes.
AllProcessed == \A r \in Ids : db[r].processed = "TRUE"

C11_Step ==
    AllProcessed =>
        /\ db' = db
        /\ \A w \in Workers :
              /\ rows'[w] = <<>>
              /\ tx'[w] = NoTx
              /\ totals'[w] = totals[w]
              /\ pc[w] = "claim" /\ pc'[w] # "claim"
                    => /\ pc'[w] \in {"done", "aborted"}
                       /\ batch_no[w] = 0
                            => batch_no'[w] = 1 /\ totals'[w] = ZeroTotals
              /\ pc[w] # "claim" => pc'[w] = pc[w]

C11_ProcessedBacklogIsNoOp == [][C11_Step]_vars

C11_Witness ==
    /\ AllProcessed
    /\ \A w \in Workers : pc[w] = "done" /\ batch_no[w] = 1
    /\ \A r \in Ids : outcomes[r] = 1

\* C12: a batch whose claim returned fewer rows than BATCH_SIZE (none
\* included) is the last of its run: the run is drained and claims no more;
\* after a batch of exactly BATCH_SIZE rows the run claims again.  A claim
\* that finds fewer than BATCH_SIZE rows to take returns all of them.
C12_Step(w) ==
    LET avail == {r \in Ids : Eligible(db[r]) /\ ~Locked(r)} IN
    /\ pc[w] = "commit" /\ pc'[w] \notin {"commit", "crashed"}
          => pc'[w] = IF Len(rows[w]) < BATCH_SIZE THEN "done" ELSE "claim"
    /\ pc[w] = "claim" /\ pc'[w] \notin {"claim", "aborted"}
          => /\ avail = {} => pc'[w] = "done" /\ rows'[w] = <<>>
             /\ avail # {} => pc'[w] = "fetch"
             /\ Cardinality(avail) < BATCH_SIZE => Range(rows'[w]) = avail
             /\ Cardinality(avail) >= BATCH_SIZE => Len(rows'[w]) = BATCH_SIZE
    /\ pc[w] = "done"
          => pc'[w] = "done" /\ batch_no'[w] = batch_no[w] /\ tx'[w] = NoTx

C12_ShortBatchDrains == [][\A w \in Workers : C12_Step(w)]_vars

C12_Witness ==
    \E w \in Workers :
        /\ pc[w] = "done"
        /\ batch_no[w] = 2
        /\ totals[w].rows = BATCH_SIZE + 1

\* C13: when the calls of a run return, every run ends drained, whatever the
\* rows do and whatever the other workers do: a row is claimed at most
\* MAX_ATTEMPTS times over all runs together (earlier attempts included),
\* so a run never needs more than MaxBatches claims.
C13_Terminates ==
    /\ [](\A w \in Workers : pc[w] = "claim" => batch_no[w] < MaxBatches)
    /\ [](\A r \in Ids : outcomes[r] <= MAX_ATTEMPTS)
    /\ <>[](\A w \in Workers : pc[w] = "done")

C13_Witness ==
    /\ \A w \in Workers : pc[w] = "done"
    /\ \E r \in Live : outcomes[r] = MAX_ATTEMPTS /\ db[r].processed = "FALSE"
    /\ \E w \in Workers : batch_no[w] >= 3

\* C14: the streaming read of download_pdf stops with "PDF too large (GET)"
\* at the first chunk that takes the byte count over the cap, declared
\* length or not: the count before that chunk was within the cap and no
\* later chunk is read; a body over the cap never downloads, and a download
\* that succeeds returns as many bytes as it read, at most the cap.
C14_Streamed(c) ==
    /\ c.getSent > 0
    /\ sess_get(c.srv).status = 200
    /\ c.srv.getMime \in {NULL, PDF}
    /\ c.srv.getMime = NULL => c.srv.head = "ok" /\ c.srv.headMime \in {NULL, PDF}

C14_CapStopsRead ==
    \A w \in Workers :
        pc[w] \in {"success", "failure"} =>
            LET c == cur[w]
                tooLarge == c.err.detail = "PDF too large (GET)"
            IN
            /\ c.ok => /\ c.read <= cap
                        /\ BodyLen(c.data) = c.read
                        /\ BodyLen(c.srv.body) <= cap
            /\ C14_Streamed(c) /\ BodyLen(c.srv.body) > cap => ~c.ok /\ tooLarge
            /\ tooLarge => /\ ~c.ok
                            /\ c.read > cap
                            /\ c.read - chunk_size <= cap
                            /\ c.read <= c.chunks * chunk_size
                            /\ (c.chunks - 1) * chunk_size <= cap

C14_Witness ==
    \E w \in Workers :
        /\ pc[w] = "failure"
        /\ cur[w].err.detail = "PDF too large (GET)"
        /\ cur[w].declared = NoCL
        /\ cur[w].read < BodyLen(cur[w].srv.body)

\* C15: when the HEAD probe fails (transport error, timeout, error status)
\* the GET is sent all the same and the GET alone decides the outcome: the
\* row goes through exactly when the GET ends with status 200, its content
\* type, if it has one, is a PDF type, its body is within the cap and the
\* body is a readable PDF.
C15_HeadFailureSwallowed ==
    \A w \in Workers :
        pc[w] \in {"success", "failure"} /\ cur[w].srv.head # "ok" =>
            LET c == cur[w] IN
            /\ c.getSent >= 1
            /\ c.ok <=> /\ sess_get(c.srv).status = 200
                         /\ c.srv.getMime \in {NULL, PDF}
                         /\ BodyLen(c.srv.body) <= cap
                         /\ c.srv.body # "bad"

\* C16: the failure write changes three fields of its row and nothing else:
\* process_attempts goes up by one, last_error becomes the message cut to
\* at most 800 characters, processed becomes false; raw_text, sha256,
\* processed_at, downloaded_at, bytes, mime, filename and pdf_url of the row
\* stay, and so does every other row.
C16_Step(w) ==
    pc[w] = "failure" /\ pc'[w] \in {"fetch", "commit"} =>
        LET r == Row(w)
            b == tx[w][r]
            a == tx'[w][r]
            e == cur[w].err
        IN
        /\ a.process_attempts = b.process_attempts + 1
        /\ a.processed = "FALSE"
        /\ a.last_error.kind = e.kind /\ a.last_error.detail = e.detail
        /\ a.last_error.len = (IF e.len > 800 THEN 800 ELSE e.len)
        /\ a.raw_text = b.raw_text
        /\ a.sha256 = b.sha256
        /\ a.processed_at = b.processed_at
        /\ a.downloaded_at = b.downloaded_at
        /\ a.bytes = b.bytes
        /\ a.mime = b.mime
        /\ a.filename = b.filename
        /\ a.pdf_url = b.pdf_url
        /\ DOMAIN tx'[w] = DOMAIN tx[w]
        /\ \A r2 \in DOMAIN tx[w] \ {r} : tx'[w][r2] = tx[w][r2]
        /\ db' = db

C16_FailureWriteFrame == [][\A w \in Workers : C16_Step(w)]_vars

C16_Witness ==
    /\ db[1].processed = "FALSE"
    /\ db[1].process_attempts = 2
    /\ db[1].processed_at = Earlier
    /\ db[1].raw_text = "old text"
    /\ db[1].last_error.kind = "SQLAlchemyError"
    /\ db[1].last_error.len = 800

\* C17: a claim never waits for another worker: a worker about to claim can
\* always do so, whatever the others hold, and what it gets is made of rows
\* that are eligible and held by no other worker, in ascending id order, at
\* most BATCH_SIZE of them, and the lowest such rows: none is passed over.
C17_Step(w) ==
    pc[w] = "claim" /\ pc'[w] \in {"fetch", "done"} =>
        LET avail == {r \in Ids : /\ Eligible(db[r])
                                   /\ \A v \in Workers \ {w} : r \notin DOMAIN tx[v]}
            got == rows'[w]
        IN
        /\ Len(got) <= BATCH_SIZE
        /\ Range(got) \subseteq avail
        /\ \A i \in DOMAIN got : \A j \in DOMAIN got : i < j => got[i] < got[j]
        /\ \A r \in avail \ Range(got) :
              Len(got) = BATCH_SIZE /\ \A g \in Range(got) : g < r
        /\ DOMAIN tx'[w] = Range(got)
        /\ \A v \in Workers \ {w} : tx'[v] = tx[v] /\ pc'[v] = pc[v]

C17_ClaimNeverWaits ==
    /\ [](\A w \in Workers : pc[w] = "claim" => ENABLED Claim(w))
    /\ [][\A w \in Workers : C17_Step(w)]_vars

C17_Witness ==
    \E w \in Workers : \E v \in Workers \ {w} :
        /\ pc[v] \in {"fetch", "success", "failure"}
        /\ Len(rows[v]) = BATCH_SIZE
        /\ pc[w] = "fetch" /\ idx[w] = 1 /\ batch_no[w] = 1
        /\ Len(rows[w]) = 1
        /\ \A g \in Range(rows[v]) : g < rows[w][1]

\* C18: a committed success is final: from then on no step of any worker
\* changes a field of the row in the table, and no worker claims it again;
\* in particular processed never goes from true back to false.
C18_Step ==
    \A r \in Ids :
        db[r].processed = "TRUE" =>
            /\ db'[r] = db[r]
            /\ \A w \in Workers : r \notin DOMAIN tx'[w] /\ r \notin Range(rows'[w])

C18_SuccessIsFinal == [][C18_Step]_vars

C18_Witness ==
    \E r \in Live : \E w \in Workers :
        /\ db[r].processed = "TRUE" /\ db[r].processed_at = 1
        /\ batch_no[w] >= 3 /\ pc[w] = "done"
        /\ totals[w].failures >= 1
        /\ \A v \in Workers \ {w} : batch_no[v] = 0

\* C19: process_attempts of a row never exceeds MAX_ATTEMPTS, in the table
\* as committed and in the writes of every open batch.
C19_AttemptsWithinCeiling ==
    /\ \A r \in Ids : db[r].process_attempts <= MAX_ATTEMPTS
    /\ \A w \in Workers : \A r \in DOMAIN tx[w] :
          tx[w][r].process_attempts <= MAX_ATTEMPTS

C19_Witness ==
    /\ \E r \in Live :
          db[r].process_attempts = MAX_ATTEMPTS /\ db[r].processed = "FALSE"
    /\ \E r \in Live :
          db[r].process_attempts = MAX_ATTEMPTS /\ db[r].processed = "TRUE"
    /\ \A w \in Workers : pc[w] = "done"

\* C20: the counts add up.  Inside a batch the rows done so far are the
\* successes plus the failures, and at its end that is the number of rows
\* claimed.  Each commit adds the counts of its batch to the totals of the
\* run and raises process_attempts in the table by as many as the batch had
\* rows; so a run's total of rows is its successes plus its failures, and
\* all runs together count the increments the table has received.
RECURSIVE C20_Sum(_, _)
C20_Sum(f, S) ==
    IF S = {} THEN 0
    ELSE LET x == CHOOSE y \in S : TRUE IN f[x] + C20_Sum(f, S \ {x})

C20_State ==
    /\ \A w \in Workers :
          /\ pc[w] \in {"fetch", "success", "failure"}
                => success[w] + failures[w] = idx[w] - 1
          /\ pc[w] = "commit" => success[w] + failures[w] = Len(rows[w])
          /\ totals[w].rows = totals[w].success + totals[w].failures
    /\ C20_Sum([w \in Workers |-> totals[w].rows], Workers)
         = C20_Sum([r \in Ids |-> db[r].process_attempts
                                   - InitRow(r).process_attempts], Ids)

C20_Step(w) ==
    pc[w] = "commit" /\ pc'[w] \in {"claim", "done"} =>
        /\ totals'[w].rows = totals[w].rows + Len(rows[w])
        /\ totals'[w].success = totals[w].success + success[w]
        /\ totals'[w].failures = totals[w].failures + failures[w]
        /\ C20_Sum([r \in Ids |-> db'[r].process_attempts
                                    - db[r].process_attempts], Ids) = Len(rows[w])
        /\ \A v \in Workers \ {w} : totals'[v] = totals[v]

C20_CountsAddUp ==
    /\ []C20_State
    /\ [][\A w \in Workers : C20_Step(w) /\ (pc[w] # "commit" => totals'[w] = totals[w])]_vars

C20_Witness ==
    \E w \in Workers :
        /\ pc[w] = "done"
        /\ batch_no[w] >= 2
        /\ totals[w].success >= 1
        /\ totals[w].failures >= 2
        /\ totals[w].rows = totals[w].success + totals[w].failures

====
